---- MODULE Spec2Model ----
(***************************************************************************)
(* Fish progression / feed-cooldown service of betta-miniapp.              *)
(*                                                                         *)
(* The repository holds several versions of the same routes.  A deployment *)
(* runs one feed route with the storage it is written against:             *)
(*   "sync"  src/app/api/feed/route.ts   (fs sync, data/betta-progress.json)*)
(*   "async" unnamed/part_008            (fs/promises, database-fish.json)  *)
(*   "file"  unnamed/part_009 + src/lib/fishProgressStore.ts               *)
(*   "mem"   unnamed/part_009 + unnamed/part_015 (in-memory store)         *)
(* and src/app as it stands:                                               *)
(*   "app"   src/app/api/feed/route.ts + src/app/api/progress/route.ts     *)
(* The variable impl names the deployment; it is fixed by Init.            *)
(***************************************************************************)
EXTENDS Integers, Sequences, FiniteSets, TLC

VARIABLES
  impl,              \* which deployment runs
  disk,              \* what the file system allows: reads, writes, both, neither
  dataDatabaseFishJson, \* data/database-fish.json: { fishes: FishRecord[] }
  now,               \* Date.now(), Unix-epoch milliseconds
  ticks,             \* number of clock advances so far (bounds the run)
  bettaProgressJson, \* data/betta-progress.json: tokenId -> DbRecord
  databaseFishJson,  \* database-fish.json: tokenId -> RawDbRecord
  fishProgressJson,  \* data/fish-progress.json: the persisted FishProgress[]
  progressStore,     \* fishProgressStore.ts: Map key -> FishProgress
  loadedFromDisk,    \* fishProgressStore.ts: load-once flag
  store,             \* part_015: Record<tokenId, FishProgress>
  resp,              \* the response of the last request
  io,                \* what the last request did to storage
  lastFeed,          \* history: per tokenId, the last accepted feed
  reqs,              \* part_008: the handler invocations in flight
  lu                 \* level-up calculator: inputs and result of one run

vars == <<impl, disk, dataDatabaseFishJson,
          now, ticks, bettaProgressJson, databaseFishJson,
          fishProgressJson, progressStore, loadedFromDisk, store,
          resp, io, lastFeed, reqs, lu>>

(***************************************************************************)
(* Bounds of the model                                                     *)
(***************************************************************************)
MaxTicks == 2

Tokens == {"1", "2"}

\* first instant of an aged deployment, 2*10^9 ms after the epoch
AgedNow == 2000000000

(***************************************************************************)
(* Configuration                                                           *)
(***************************************************************************)
Rarity == {"COMMON", "UNCOMMON", "RARE", "SPIRIT", "EPIC", "LEGENDARY"}

MAX_LEVEL_BY_RARITY ==
  [COMMON |-> 15, UNCOMMON |-> 20, RARE |-> 30,
   SPIRIT |-> 25, EPIC |-> 40, LEGENDARY |-> 50]

\* feed/route.ts and part_008
EXP_PER_FEED == 20

FEED_COOLDOWN_MS == 30 * 60 * 1000

\* part_009: the cooldown comes from the environment, in minutes
NEXT_PUBLIC_FEED_COOLDOWN == 30

FEED_COOLDOWN_MIN ==
  IF NEXT_PUBLIC_FEED_COOLDOWN > 0 THEN NEXT_PUBLIC_FEED_COOLDOWN ELSE 60

COOLDOWN_MS == FEED_COOLDOWN_MIN * 60 * 1000

EXP_PER_FEED_p009 == 10

Impls == {"sync", "async", "file", "mem"}

\* the cooldown window and the gain of the deployed feed route
CooldownOf(i) == IF i \in {"sync", "async"} THEN FEED_COOLDOWN_MS ELSE COOLDOWN_MS

GainOf(i) == IF i \in {"sync", "async"} THEN EXP_PER_FEED ELSE EXP_PER_FEED_p009

(***************************************************************************)
(* Responses                                                               *)
(***************************************************************************)
\* the empty JSON object
Empty == [k \in {} |-> 0]

NoResp ==
  [op |-> "none", tokenId |-> "", rarity |-> "", at |-> 0, status |-> 0,
   ok |-> FALSE, error |-> "", remainingMs |-> 0, level |-> 0, exp |-> 0,
   expNeededNext |-> 0, isMax |-> FALSE, cooldownMs |-> 0, lastFeedAt |-> 0,
   progress |-> Empty]

NoRec == [tokenId |-> "", rarity |-> "", level |-> 0, exp |-> 0, lastFeedAt |-> 0]

\* loads/saves: calls of the load and save operations; writes: documents
\* written to the durable file; got: what getOrCreateProgress returned;
\* rows: what getManyProgress returned
NoIo == [loads |-> 0, saves |-> 0, writes |-> 0, created |-> FALSE, got |-> NoRec,
         rows |-> {}]

NeverFed == [at |-> 0, rarity |-> ""]

\* tokenId and rarity echo the request the answer belongs to
ErrorResp(op, tok, r, status, error) ==
  [NoResp EXCEPT !.op = op, !.tokenId = tok, !.rarity = r, !.at = now,
                 !.status = status, !.error = error]

\* a 400: the request never got as far as a fish
BadRequest(op, error) == [NoResp EXCEPT !.op = op, !.status = 400, !.error = error]

OkFeedResp(tok, r, level, exp, expNeededNext, isMax, cd) ==
  [NoResp EXCEPT !.op = "feed", !.tokenId = tok, !.rarity = r, !.at = now,
                 !.status = 200, !.ok = TRUE, !.level = level, !.exp = exp,
                 !.expNeededNext = expNeededNext, !.isMax = isMax,
                 !.cooldownMs = cd, !.lastFeedAt = now]

\* obj[key] = rec on a JSON object / Record
\* the file system: a read (existsSync, access, readFile) or a write (mkdir,
\* writeFile) throws when the disk does not allow it
DiskStates == {"ok", "unreadable", "unwritable", "unavailable"}

canRead == disk \in {"ok", "unwritable"}

canWrite == disk \in {"ok", "unreadable"}

\* data/database-fish.json before anything created it
NoFile == [exists |-> FALSE, fishes |-> {}]

Put(obj, key, rec) ==
  [k \in (DOMAIN obj) \cup {key} |-> IF k = key THEN rec ELSE obj[k]]

(***************************************************************************)
(* "sync": src/app/api/feed/route.ts                                       *)
(***************************************************************************)
expNeededForLevel(rarity, level) ==
  LET maxLevel == MAX_LEVEL_BY_RARITY[rarity]
  IN  IF level >= maxLevel THEN 0 ELSE 100 + (level - 1) * 40

\* the level-up loop of POST, lines 161-167
\* a level-up loop that forgets to pay for the level
RECURSIVE LevelUpLoop_keepsExp(_, _, _)
LevelUpLoop_keepsExp(rarity, level, exp) ==
  LET needed == expNeededForLevel(rarity, level)
  IN  IF needed > 0 /\ exp >= needed /\ level < MAX_LEVEL_BY_RARITY[rarity]
      THEN LevelUpLoop_keepsExp(rarity, level + 1, exp)
      ELSE [level |-> level, exp |-> exp, expNeededNext |-> needed]

RECURSIVE LevelUpLoop(_, _, _)
LevelUpLoop(rarity, level, exp) ==
  LET maxLevel == MAX_LEVEL_BY_RARITY[rarity]
      expNeededNext == expNeededForLevel(rarity, level)
  IN  IF expNeededNext > 0 /\ exp >= expNeededNext /\ level < maxLevel
      THEN LevelUpLoop(rarity, level + 1, exp - expNeededNext)
      ELSE [level |-> level, exp |-> exp, expNeededNext |-> expNeededNext]

\* a clamp at the cap that forgets the flag
GainExp_noMaxFlag(rarity, level0, exp0, gain) ==
  LET maxLevel == MAX_LEVEL_BY_RARITY[rarity]
      l == LevelUpLoop(rarity, level0, exp0 + gain)
  IN  IF l.level >= maxLevel
      THEN [level |-> maxLevel, exp |-> 0, expNeededNext |-> 0, isMax |-> FALSE]
      ELSE [level |-> l.level, exp |-> l.exp,
            expNeededNext |-> l.expNeededNext, isMax |-> FALSE]

\* lines 158-176: add the gain, level up, clamp at the cap
GainExp(rarity, level0, exp0, gain) ==
  LET maxLevel == MAX_LEVEL_BY_RARITY[rarity]
      l == LevelUpLoop(rarity, level0, exp0 + gain)
  IN  IF l.level >= maxLevel
      THEN [level |-> maxLevel, exp |-> 0, expNeededNext |-> 0, isMax |-> TRUE]
      ELSE [level |-> l.level, exp |-> l.exp,
            expNeededNext |-> l.expNeededNext, isMax |-> FALSE]

\* lines 50-59: the parsed document, {} when reading throws
loadDb == IF canRead THEN bettaProgressJson ELSE Empty

\* a save whose document never reaches the file
saveDb_dropped(db) == bettaProgressJson

\* lines 61-68: the document on disk after saveDb(db), which swallows a
\* failed write
saveDb(db) == IF canWrite THEN db ELSE bettaProgressJson

\* the documents a save got onto the disk
written == IF canWrite THEN 1 ELSE 0

\* a window that opens one millisecond after the feed
onCooldown_afterFeedMs(lastFedAt) ==
  lastFedAt # 0 /\ now - lastFedAt > 0 /\ now - lastFedAt < FEED_COOLDOWN_MS

\* lines 109-111: a truthy lastFedAt less than a window ago
onCooldown(lastFedAt) == lastFedAt # 0 /\ now - lastFedAt < FEED_COOLDOWN_MS

\* POST of feed/route.ts; tok, r and wallet are the body's fields after the
\* String(..).trim() / toUpperCase() / toLowerCase() normalisation
POST_feed(tok, r, wallet) ==
  /\ impl \in {"sync", "app"}
  /\ UNCHANGED <<impl, disk, dataDatabaseFishJson,
                 now, ticks, databaseFishJson, fishProgressJson,
                 progressStore, loadedFromDisk, store, reqs, lu>>
  /\ IF tok = "" \/ wallet = ""
     THEN /\ resp' = BadRequest("feed", "MISSING_PARAMS")
          /\ io' = NoIo
          /\ UNCHANGED <<bettaProgressJson, lastFeed>>
     ELSE IF r \notin Rarity
     THEN /\ resp' = BadRequest("feed", "INVALID_RARITY")
          /\ io' = NoIo
          /\ UNCHANGED <<bettaProgressJson, lastFeed>>
     ELSE
       LET db == loadDb
           has == tok \in DOMAIN db
           lastFedAt == IF has THEN db[tok].lastFedAt ELSE 0
           elapsed == now - lastFedAt
           level0 == IF has THEN db[tok].level ELSE 1
           exp0 == IF has THEN db[tok].exp ELSE 0
           maxLevel == MAX_LEVEL_BY_RARITY[r]
       IN  IF onCooldown(lastFedAt)
           THEN /\ resp' = [ErrorResp("feed", tok, r, 429, "ON_COOLDOWN")
                              EXCEPT !.remainingMs = FEED_COOLDOWN_MS - elapsed,
                                     !.level = level0, !.exp = exp0,
                                     !.expNeededNext = expNeededForLevel(r, level0),
                                     !.isMax = (level0 >= maxLevel
                                                \/ expNeededForLevel(r, level0) = 0)]
                /\ io' = [NoIo EXCEPT !.loads = 1]
                /\ UNCHANGED <<bettaProgressJson, lastFeed>>
           ELSE IF level0 >= maxLevel
           THEN /\ bettaProgressJson' =
                     saveDb(Put(db, tok, [level |-> level0, exp |-> exp0,
                                          lastFedAt |-> now]))
                /\ resp' = OkFeedResp(tok, r, level0, exp0, 0, TRUE, FEED_COOLDOWN_MS)
                /\ io' = [NoIo EXCEPT !.loads = 1, !.saves = 1, !.writes = written,
                                      !.created = ~has]
                /\ lastFeed' = [lastFeed EXCEPT ![tok] = [at |-> now, rarity |-> r]]
           ELSE LET g == GainExp(r, level0, exp0, EXP_PER_FEED)
                IN  /\ bettaProgressJson' =
                         saveDb(Put(db, tok, [level |-> g.level, exp |-> g.exp,
                                              lastFedAt |-> now]))
                    /\ resp' = OkFeedResp(tok, r, g.level, g.exp, g.expNeededNext,
                                          g.isMax, FEED_COOLDOWN_MS)
                    /\ io' = [NoIo EXCEPT !.loads = 1, !.saves = 1, !.writes = written,
                                          !.created = ~has]
                    /\ lastFeed' = [lastFeed EXCEPT ![tok] = [at |-> now, rarity |-> r]]

(***************************************************************************)
(* "async": unnamed/part_008                                               *)
(***************************************************************************)
Max(a, b) == IF a >= b THEN a ELSE b

Min(a, b) == IF a <= b THEN a ELSE b

expNeededForLevel_p008(rarity, level) ==
  LET maxLevel == MAX_LEVEL_BY_RARITY[rarity]
      safeLevel == Max(1, Min(level, maxLevel))
  IN  IF level >= maxLevel THEN 0 ELSE 100 + (safeLevel - 1) * 40

\* a loop that stops after the first level-up and drops the rest of the gain
applyExpGainLoop_oneLevel(rarity, level, exp, remainingGain) ==
  LET maxLevel == MAX_LEVEL_BY_RARITY[rarity]
      needed == expNeededForLevel_p008(rarity, level)
      missing == needed - exp
  IN  IF ~(remainingGain > 0 /\ level < maxLevel)
      THEN [level |-> level, exp |-> exp]
      ELSE IF needed <= 0
      THEN [level |-> maxLevel, exp |-> 0]
      ELSE IF remainingGain < missing
      THEN [level |-> level, exp |-> exp + remainingGain]
      ELSE [level |-> level + 1, exp |-> 0]

\* the while loop of applyExpGain, lines 61-81
RECURSIVE applyExpGainLoop(_, _, _, _)
applyExpGainLoop(rarity, level, exp, remainingGain) ==
  LET maxLevel == MAX_LEVEL_BY_RARITY[rarity]
      needed == expNeededForLevel_p008(rarity, level)
      missing == needed - exp
  IN  IF ~(remainingGain > 0 /\ level < maxLevel)
      THEN [level |-> level, exp |-> exp]
      ELSE IF needed <= 0
      THEN [level |-> maxLevel, exp |-> 0]
      ELSE IF remainingGain < missing
      THEN [level |-> level, exp |-> exp + remainingGain]
      ELSE applyExpGainLoop(rarity, level + 1, 0, remainingGain - missing)

applyExpGain(rarity, currentLevel, currentExp, gain) ==
  LET maxLevel == MAX_LEVEL_BY_RARITY[rarity]
      level0 == Max(1, Min(IF currentLevel = 0 THEN 1 ELSE currentLevel, maxLevel))
      exp0 == Max(0, currentExp)
      l == applyExpGainLoop(rarity, level0, exp0, gain)
      expNeededNext == expNeededForLevel_p008(rarity, l.level)
      isMax == l.level >= maxLevel \/ expNeededNext = 0
  IN  [level |-> l.level,
       exp |-> IF isMax THEN 0 ELSE l.exp,
       expNeededNext |-> IF isMax THEN 0 ELSE expNeededNext,
       isMax |-> isMax]

\* lines 140-144: no test for a record that was never fed
onCooldown_p008(lastFeedAt) == now - lastFeedAt < FEED_COOLDOWN_MS

\* the invocations of the handler that can be in flight at once; Next runs
\* them one at a time (slot 1), as the specification assumes per fish
MaxInflight == 2

Slots == 1..MaxInflight

Idle == [pc |-> "idle", tok |-> "", r |-> "", db |-> Empty, out |-> NoResp,
         created |-> FALSE]

\* fs.writeFile(DB_PATH, ...) opens the file with flag 'w', which truncates
\* it, and then writes the text: while a request is there, the file holds a
\* proper prefix of the new document, which JSON.parse rejects
partial == \E q \in Slots : reqs[q].pc = "writing"

\* lines 94-108: the parsed document, {} when reading throws
loadDb_p008 == IF canRead /\ ~partial THEN databaseFishJson ELSE Empty

\* lines 110-116: the document on disk after saveDb(db), which swallows a
\* failed write
saveDb_p008(db) == IF canWrite THEN db ELSE databaseFishJson

\* lines 118-135: parse the body, validate, start loadDb()
P008_Begin(s, tok, r, wallet) ==
  /\ impl = "async"
  /\ reqs[s].pc = "idle"
  /\ \A q \in Slots : q < s => reqs[q].pc # "idle"
  /\ UNCHANGED <<impl, disk, dataDatabaseFishJson,
                 now, ticks, bettaProgressJson, databaseFishJson,
                 fishProgressJson, progressStore, loadedFromDisk, store,
                 lastFeed, lu>>
  /\ IF tok = "" \/ r = "" \/ wallet = ""
     THEN /\ resp' = BadRequest("feed", "INVALID_BODY")
          /\ io' = NoIo
          /\ UNCHANGED reqs
     ELSE /\ reqs' = [reqs EXCEPT ![s] = [Idle EXCEPT !.pc = "loading",
                                                       !.tok = tok, !.r = r]]
          /\ UNCHANGED <<resp, io>>

\* lines 135-173: loadDb() resolves; cooldown check, applyExpGain, start saveDb()
P008_Loaded(s) ==
  /\ impl = "async"
  /\ reqs[s].pc = "loading"
  /\ UNCHANGED <<impl, disk, dataDatabaseFishJson,
                 now, ticks, bettaProgressJson, databaseFishJson,
                 fishProgressJson, progressStore, loadedFromDisk, store,
                 lastFeed, lu>>
  /\ LET tok == reqs[s].tok
         r == reqs[s].r
         db == loadDb_p008
         has == tok \in DOMAIN db
         level0 == IF has THEN db[tok].level ELSE 1
         exp0 == IF has THEN db[tok].exp ELSE 0
         lastFeedAt == IF has THEN db[tok].lastFeedAt ELSE 0
         sinceLast == now - lastFeedAt
         updated == applyExpGain(r, level0, exp0, EXP_PER_FEED)
     IN  IF onCooldown_p008(lastFeedAt)
         THEN /\ resp' = [ErrorResp("feed", tok, r, 429, "ON_COOLDOWN")
                            EXCEPT !.remainingMs = FEED_COOLDOWN_MS - sinceLast]
              /\ io' = [NoIo EXCEPT !.loads = 1]
              /\ reqs' = [reqs EXCEPT ![s] = Idle]
         ELSE /\ reqs' = [reqs EXCEPT ![s] =
                   [pc |-> "saving", tok |-> tok, r |-> r,
                    db |-> Put(db, tok,
                               [level |-> updated.level,
                                exp |-> IF updated.isMax THEN 0 ELSE updated.exp,
                                lastFeedAt |-> now, rarity |-> r]),
                    out |-> OkFeedResp(tok, r, updated.level, updated.exp,
                                       updated.expNeededNext, updated.isMax,
                                       FEED_COOLDOWN_MS),
                    created |-> ~has]]
              /\ UNCHANGED <<resp, io>>

\* lines 110-116 and 173-185: writeFile replaces the document, then the
\* handler answers
P008_Saved(s) ==
  /\ impl = "async"
  /\ reqs[s].pc \in {"saving", "writing"}
  /\ UNCHANGED <<impl, disk, dataDatabaseFishJson,
                 now, ticks, bettaProgressJson, fishProgressJson,
                 progressStore, loadedFromDisk, store, lu>>
  /\ databaseFishJson' = saveDb_p008(reqs[s].db)
  /\ resp' = reqs[s].out
  /\ io' = [NoIo EXCEPT !.loads = 1, !.saves = 1, !.writes = written,
                       !.created = reqs[s].created]
  /\ lastFeed' = [lastFeed EXCEPT ![reqs[s].tok] =
                    [at |-> reqs[s].out.at, rarity |-> reqs[s].r]]
  /\ reqs' = [reqs EXCEPT ![s] = Idle]

\* lines 110-116: writeFile has truncated database-fish.json and has not
\* written the whole document yet; the handler is suspended at the await
P008_WriteBegin(s) ==
  /\ impl = "async"
  /\ reqs[s].pc = "saving"
  /\ canWrite
  /\ reqs' = [reqs EXCEPT ![s].pc = "writing"]
  /\ UNCHANGED <<impl, disk, dataDatabaseFishJson,
                 now, ticks, bettaProgressJson, databaseFishJson,
                 fishProgressJson, progressStore, loadedFromDisk, store,
                 resp, io, lastFeed, lu>>

(***************************************************************************)
(* src/lib/fishProgressStore.ts: file-backed store behind a Map            *)
(***************************************************************************)
makeKey(tokenId, rarity) == tokenId \o ":" \o rarity

\* Formula (locked): 100 + (L - 1) * 40
expNeeded(level) == IF level < 1 THEN 100 ELSE 100 + (level - 1) * 40

\* MAX_LEVEL_BY_RARITY[rarity] ?? 1
getMaxLevelForRarity(rarity) ==
  IF rarity \in Rarity THEN MAX_LEVEL_BY_RARITY[rarity] ELSE 1

\* lines 69-76: the sanitised copy of a parsed entry
Safe(p) ==
  [tokenId |-> p.tokenId, rarity |-> p.rarity,
   level |-> IF p.level > 0 THEN p.level ELSE 1,
   exp |-> IF p.exp >= 0 THEN p.exp ELSE 0,
   lastFeedAt |-> IF p.lastFeedAt > 0 THEN p.lastFeedAt ELSE 0]

\* the Map after ensureLoaded(); file is the parsed FishProgress[] (its
\* entries carry distinct keys, the order of the array is not observed).
\* The flag is set before the read, so a read that throws leaves the Map as
\* it is for good
ensureLoaded(map, loaded, file) ==
  IF loaded \/ ~canRead THEN map
  ELSE LET ok == {p \in file : p.tokenId # "" /\ p.rarity # ""}
           keys == {makeKey(p.tokenId, p.rarity) : p \in ok}
       IN  [k \in (DOMAIN map) \cup keys |->
              IF k \in keys
              THEN Safe(CHOOSE p \in ok : makeKey(p.tokenId, p.rarity) = k)
              ELSE map[k]]

\* the file after persistToDisk(): Array.from(progressStore.values()), or
\* what it was when the write throws
persistToDisk(map, file) == IF canWrite THEN {map[k] : k \in DOMAIN map} ELSE file

DefaultProgress(tokenId, rarity) ==
  [tokenId |-> tokenId, rarity |-> rarity, level |-> 1, exp |-> 0, lastFeedAt |-> 0]

\* a creation that stays in memory
getOrCreateProgress_noPersist(map, loaded, file, tokenId, rarity) ==
  LET m == ensureLoaded(map, loaded, file)
      key == makeKey(tokenId, rarity)
      created == DefaultProgress(tokenId, rarity)
  IN  IF key \in DOMAIN m
      THEN [rec |-> m[key], map |-> m, file |-> file, writes |-> 0, created |-> FALSE]
      ELSE [rec |-> created, map |-> Put(m, key, created), file |-> file,
            writes |-> 0, created |-> TRUE]

\* result: the record returned, the Map and the file afterwards
getOrCreateProgress(map, loaded, file, tokenId, rarity) ==
  LET m == ensureLoaded(map, loaded, file)
      key == makeKey(tokenId, rarity)
      created == DefaultProgress(tokenId, rarity)
  IN  IF key \in DOMAIN m
      THEN [rec |-> m[key], map |-> m, file |-> file, writes |-> 0, created |-> FALSE]
      ELSE [rec |-> created, map |-> Put(m, key, created),
            file |-> persistToDisk(Put(m, key, created), file),
            writes |-> written, created |-> TRUE]

\* a save that writes the file twice
saveProgress_twice(map, loaded, file, progress) ==
  LET m == Put(ensureLoaded(map, loaded, file),
               makeKey(progress.tokenId, progress.rarity), progress)
  IN  [map |-> m, file |-> persistToDisk(m, file), writes |-> 2 * written]

saveProgress(map, loaded, file, progress) ==
  LET m == Put(ensureLoaded(map, loaded, file),
               makeKey(progress.tokenId, progress.rarity), progress)
  IN  [map |-> m, file |-> persistToDisk(m, file), writes |-> written]

(***************************************************************************)
(* unnamed/part_015: the in-memory store                                   *)
(***************************************************************************)
expNeeded_p015(level) == 50 * level

\* what MAX_LEVEL[rarity] gives for a tag the table does not hold; no level
\* is at or above it and none is below it
undefined == -1

getMaxLevelForRarity_p015(rarity) ==
  IF rarity \in Rarity THEN MAX_LEVEL_BY_RARITY[rarity] ELSE undefined

\* a lookup that takes the record out of the store
getOrCreateProgress_p015_takes(st, tokenId, rarity) ==
  IF tokenId \in DOMAIN st
  THEN [rec |-> [st[tokenId] EXCEPT !.rarity = rarity],
        store |-> [k \in DOMAIN st \ {tokenId} |-> st[k]], created |-> FALSE]
  ELSE [rec |-> DefaultProgress(tokenId, rarity),
        store |-> Put(st, tokenId, DefaultProgress(tokenId, rarity)),
        created |-> TRUE]

\* a rarity change that starts the fish over
getOrCreateProgress_p015_restart(st, tokenId, rarity) ==
  IF tokenId \in DOMAIN st
  THEN LET existing == IF st[tokenId].rarity = rarity THEN st[tokenId]
                       ELSE [st[tokenId] EXCEPT !.rarity = rarity, !.level = 1, !.exp = 0]
       IN  [rec |-> existing, store |-> Put(st, tokenId, existing), created |-> FALSE]
  ELSE [rec |-> DefaultProgress(tokenId, rarity),
        store |-> Put(st, tokenId, DefaultProgress(tokenId, rarity)),
        created |-> TRUE]

\* an existing record takes the caller's rarity
getOrCreateProgress_p015(st, tokenId, rarity) ==
  IF tokenId \in DOMAIN st
  THEN LET existing == [st[tokenId] EXCEPT !.rarity = rarity]
       IN  [rec |-> existing, store |-> Put(st, tokenId, existing), created |-> FALSE]
  ELSE [rec |-> DefaultProgress(tokenId, rarity),
        store |-> Put(st, tokenId, DefaultProgress(tokenId, rarity)),
        created |-> TRUE]

saveProgress_p015(st, progress) == Put(st, progress.tokenId, progress)

(***************************************************************************)
(* unnamed/part_009: the feed route over the store                         *)
(***************************************************************************)
expNeededOf(i, level) == IF i = "file" THEN expNeeded(level) ELSE expNeeded_p015(level)

maxLevelOf(i, rarity) ==
  IF i = "file" THEN getMaxLevelForRarity(rarity) ELSE getMaxLevelForRarity_p015(rarity)

\* level >= maxLevel and level < maxLevel as the route evaluates them: both
\* are false when maxLevel is undefined
levelAtCap(level, maxLevel) == maxLevel # undefined /\ level >= maxLevel

levelBelowCap(level, maxLevel) == maxLevel # undefined /\ level < maxLevel

\* an "if" where the route has a "while": one level per feed at most
LevelUpLoop_p009_once(i, maxLevel, level, exp) ==
  LET needed == expNeededOf(i, level)
  IN  IF exp >= needed /\ levelBelowCap(level, maxLevel)
      THEN [level |-> level + 1, exp |-> exp - needed]
      ELSE [level |-> level, exp |-> exp]

\* lines 101-110
RECURSIVE LevelUpLoop_p009(_, _, _, _)
LevelUpLoop_p009(i, maxLevel, level, exp) ==
  LET needed == expNeededOf(i, level)
  IN  IF exp >= needed /\ levelBelowCap(level, maxLevel)
      THEN LevelUpLoop_p009(i, maxLevel, level + 1, exp - needed)
      ELSE [level |-> level, exp |-> exp]

\* lines 97-116: add the gain, level up, clamp when reaching the cap
GainExp_p009(i, maxLevel, level0, exp0, gain) ==
  LET l == LevelUpLoop_p009(i, maxLevel, level0, exp0 + gain)
  IN  IF levelAtCap(l.level, maxLevel)
      THEN [level |-> maxLevel, exp |-> Min(l.exp, expNeededOf(i, maxLevel))]
      ELSE l

\* a window closed one millisecond late
onCooldown_p009_inclusive(progress) ==
  progress.lastFeedAt > 0 /\ now - progress.lastFeedAt <= COOLDOWN_MS

\* lines 59-61
onCooldown_p009(progress) ==
  progress.lastFeedAt > 0 /\ now - progress.lastFeedAt < COOLDOWN_MS

\* the record part_009 saves and the answer it gives, from the record
\* getOrCreateProgress returned
FeedProgress(i, progress, rarity) ==
  LET maxLevel == maxLevelOf(i, rarity)
      elapsed == now - progress.lastFeedAt
      g == GainExp_p009(i, maxLevel, progress.level, progress.exp, EXP_PER_FEED_p009)
  IN  IF onCooldown_p009(progress)
      THEN [saved |-> FALSE, rec |-> progress,
            resp |-> [ErrorResp("feed", progress.tokenId, rarity, 429, "ON_COOLDOWN")
                        EXCEPT !.remainingMs = COOLDOWN_MS - elapsed,
                               !.lastFeedAt = progress.lastFeedAt]]
      ELSE IF levelAtCap(progress.level, maxLevel)
      THEN [saved |-> TRUE, rec |-> [progress EXCEPT !.lastFeedAt = now],
            resp |-> OkFeedResp(progress.tokenId, progress.rarity, progress.level,
                                progress.exp, 0, TRUE, COOLDOWN_MS)]
      ELSE [saved |-> TRUE,
            rec |-> [progress EXCEPT !.level = g.level, !.exp = g.exp,
                                     !.lastFeedAt = now],
            resp |-> OkFeedResp(progress.tokenId, progress.rarity, g.level, g.exp,
                                IF levelAtCap(g.level, maxLevel) THEN 0
                                ELSE expNeededOf(i, g.level),
                                levelAtCap(g.level, maxLevel), COOLDOWN_MS)]

POST_p009(tok, r) ==
  /\ impl \in {"file", "mem"}
  /\ UNCHANGED <<impl, disk, dataDatabaseFishJson,
                 now, ticks, bettaProgressJson, databaseFishJson, reqs, lu>>
  /\ IF tok = "" \/ r = ""
     THEN /\ resp' = BadRequest("feed", "MISSING_PARAMS")
          /\ io' = NoIo
          /\ UNCHANGED <<fishProgressJson, progressStore, loadedFromDisk, store,
                         lastFeed>>
     ELSE IF impl = "file"
     THEN LET g == getOrCreateProgress(progressStore, loadedFromDisk,
                                       fishProgressJson, tok, r)
              f == FeedProgress("file", g.rec, r)
              s == saveProgress(g.map, TRUE, g.file, f.rec)
          IN  /\ loadedFromDisk' = TRUE
              /\ progressStore' = IF f.saved THEN s.map ELSE g.map
              /\ fishProgressJson' = IF f.saved THEN s.file ELSE g.file
              /\ resp' = f.resp
              /\ io' = [loads |-> 1, saves |-> IF f.saved THEN 1 ELSE 0,
                        writes |-> g.writes + (IF f.saved THEN s.writes ELSE 0),
                        created |-> g.created, got |-> g.rec, rows |-> {}]
              /\ lastFeed' = IF f.saved
                             THEN [lastFeed EXCEPT ![tok] = [at |-> now, rarity |-> r]]
                             ELSE lastFeed
              /\ UNCHANGED store
     ELSE LET g == getOrCreateProgress_p015(store, tok, r)
              f == FeedProgress("mem", g.rec, r)
          IN  /\ store' = IF f.saved THEN saveProgress_p015(g.store, f.rec) ELSE g.store
              /\ resp' = f.resp
              /\ io' = [loads |-> 1, saves |-> IF f.saved THEN 1 ELSE 0,
                        writes |-> 0, created |-> g.created, got |-> g.rec, rows |-> {}]
              /\ lastFeed' = IF f.saved
                             THEN [lastFeed EXCEPT ![tok] = [at |-> now, rarity |-> r]]
                             ELSE lastFeed
              /\ UNCHANGED <<fishProgressJson, progressStore, loadedFromDisk>>

(***************************************************************************)
(* Progress queries.  A request asks for the tokens qs, all with rarity r. *)
(***************************************************************************)
ProgressResp(progress) ==
  [NoResp EXCEPT !.op = "progress", !.at = now, !.status = 200, !.ok = TRUE,
                 !.progress = progress]

\* unnamed/part_006, the progress route over data/betta-progress.json
expNeededForLevel_p006(rarity, level) ==
  LET maxLevel == MAX_LEVEL_BY_RARITY[rarity]
  IN  IF level >= maxLevel THEN 0 ELSE 100 + (level - 1) * 40

POST_p006(qs, r) ==
  /\ impl = "sync"
  /\ UNCHANGED <<impl, disk, dataDatabaseFishJson,
                 now, ticks, bettaProgressJson, databaseFishJson,
                 fishProgressJson, progressStore, loadedFromDisk, store,
                 lastFeed, reqs, lu>>
  /\ io' = [NoIo EXCEPT !.loads = 1]
  /\ LET db == loadDb
         items == {t \in qs : t # "" /\ r \in Rarity}
         row(t) ==
           LET level == IF t \in DOMAIN db THEN db[t].level ELSE 1
               exp == IF t \in DOMAIN db THEN db[t].exp ELSE 0
               expNeededNext == expNeededForLevel_p006(r, level)
           IN  [level |-> level, exp |-> exp, expNeededNext |-> expNeededNext,
                isMax |-> (level >= MAX_LEVEL_BY_RARITY[r] \/ expNeededNext = 0)]
     IN  resp' = ProgressResp([t \in items |-> row(t)])

\* src/app/api/progress/route.ts, the progress route over database-fish.json
expNeededForLevel_progress(rarity, level) ==
  LET maxLevel == MAX_LEVEL_BY_RARITY[rarity]
      safeLevel == Max(1, Min(level, maxLevel))
  IN  IF level >= maxLevel THEN 0 ELSE 100 + (safeLevel - 1) * 40

POST_progress(qs, r) ==
  /\ impl \in {"async", "app"}
  /\ UNCHANGED <<impl, disk, dataDatabaseFishJson,
                 now, ticks, bettaProgressJson, databaseFishJson,
                 fishProgressJson, progressStore, loadedFromDisk, store,
                 lastFeed, reqs, lu>>
  /\ IF qs = {}
     THEN /\ resp' = BadRequest("progress", "INVALID_BODY")
          /\ io' = NoIo
     ELSE LET db == loadDb_p008
              row(t) ==
                LET maxLevel == MAX_LEVEL_BY_RARITY[r]
                    baseLevel == IF t \in DOMAIN db THEN db[t].level ELSE 1
                    baseExp == IF t \in DOMAIN db THEN db[t].exp ELSE 0
                    level == Max(1, Min(baseLevel, maxLevel))
                    expNeededNext == expNeededForLevel_progress(r, level)
                    isMax == level >= maxLevel \/ expNeededNext = 0
                IN  [level |-> level,
                     exp |-> IF isMax THEN 0
                             ELSE IF baseExp >= expNeededNext
                             THEN Max(0, expNeededNext - 1) ELSE baseExp,
                     expNeededNext |-> IF isMax THEN 0 ELSE expNeededNext,
                     isMax |-> isMax]
          IN  /\ resp' = ProgressResp([t \in qs |-> row(t)])
              /\ io' = [NoIo EXCEPT !.loads = 1]

\* unnamed/part_005, an earlier progress route, over data/database-fish.json
expNeededForLevel_p005(level, rarity) ==
  IF level >= MAX_LEVEL_BY_RARITY[rarity] THEN 0 ELSE 100 + 40 * (level - 1)

\* lines 40-53: creates the empty document when the file is not there; the
\* writeFile is not guarded
ensureDbFile_p005 ==
  IF dataDatabaseFishJson.exists THEN [threw |-> FALSE, file |-> dataDatabaseFishJson]
  ELSE IF canWrite THEN [threw |-> FALSE, file |-> [exists |-> TRUE, fishes |-> {}]]
  ELSE [threw |-> TRUE, file |-> dataDatabaseFishJson]

\* lines 55-71: the readFile is not guarded, only the JSON.parse is
readDb_p005 ==
  LET e == ensureDbFile_p005
  IN  [threw |-> e.threw \/ ~canRead, file |-> e.file, fishes |-> e.file.fishes]

POST_p005(qs, r) ==
  /\ impl = "async"
  /\ UNCHANGED <<impl, disk, now, ticks, bettaProgressJson, databaseFishJson,
                 fishProgressJson, progressStore, loadedFromDisk, store,
                 lastFeed, reqs, lu>>
  /\ IF qs = {}
     THEN /\ resp' = BadRequest("progress", "NO_FISHES")
          /\ io' = NoIo
          /\ UNCHANGED dataDatabaseFishJson
     ELSE LET db == readDb_p005
              row(t) ==
                LET found == {f \in db.fishes : f.tokenId = t}
                    level == IF found = {} THEN 1 ELSE (CHOOSE f \in found : TRUE).level
                    exp == IF found = {} THEN 0 ELSE (CHOOSE f \in found : TRUE).exp
                IN  [level |-> level, exp |-> exp,
                     expNeededNext |-> expNeededForLevel_p005(level, r),
                     isMax |-> level >= MAX_LEVEL_BY_RARITY[r]]
          IN  /\ dataDatabaseFishJson' = db.file
              /\ io' = [NoIo EXCEPT !.loads = 1]
              /\ resp' = IF db.threw
                         THEN [NoResp EXCEPT !.op = "progress", !.at = now,
                                             !.status = 500,
                                             !.error = "INTERNAL_ERROR"]
                         ELSE ProgressResp([t \in qs |-> row(t)])

\* a batch read that answers for the missing items too
getManyProgress_defaults(map, loaded, file, items) ==
  LET m == ensureLoaded(map, loaded, file)
  IN  {IF makeKey(i.tokenId, i.rarity) \in DOMAIN m
       THEN m[makeKey(i.tokenId, i.rarity)]
       ELSE DefaultProgress(i.tokenId, i.rarity) : i \in items}

\* fishProgressStore.ts getManyProgress: the existing records of the items
getManyProgress(map, loaded, file, items) ==
  LET m == ensureLoaded(map, loaded, file)
  IN  {m[makeKey(i.tokenId, i.rarity)] :
         i \in {j \in items : makeKey(j.tokenId, j.rarity) \in DOMAIN m}}

\* unnamed/part_004, the progress route over the store
POST_p004(qs, r) ==
  /\ impl = "file"
  /\ UNCHANGED <<impl, disk, dataDatabaseFishJson,
                 now, ticks, bettaProgressJson, databaseFishJson,
                 fishProgressJson, store, lastFeed, reqs, lu>>
  /\ LET normalizedItems == {[tokenId |-> t, rarity |-> r] : t \in {u \in qs : r # ""}}
         rows == getManyProgress(progressStore, loadedFromDisk, fishProgressJson,
                                 normalizedItems)
         payload(p) ==
           LET maxLevel == getMaxLevelForRarity(p.rarity)
           IN  [level |-> p.level, exp |-> p.exp,
                expNeededNext |-> IF p.level >= maxLevel THEN 0 ELSE expNeeded(p.level),
                isMax |-> p.level >= maxLevel]
     IN  IF qs = {}
         THEN /\ resp' = BadRequest("progress", "NO_ITEMS")
              /\ io' = NoIo
              /\ UNCHANGED <<progressStore, loadedFromDisk>>
         ELSE IF normalizedItems = {}
         THEN /\ resp' = BadRequest("progress", "NO_VALID_ITEMS")
              /\ io' = NoIo
              /\ UNCHANGED <<progressStore, loadedFromDisk>>
         ELSE /\ resp' = ProgressResp([t \in {p.tokenId : p \in rows} |->
                            payload(CHOOSE p \in rows : p.tokenId = t)])
              /\ io' = [NoIo EXCEPT !.loads = 1]
              /\ progressStore' = ensureLoaded(progressStore, loadedFromDisk,
                                               fishProgressJson)
              /\ loadedFromDisk' = TRUE

(***************************************************************************)
(* The clock                                                               *)
(***************************************************************************)
Tick(d) ==
  /\ ticks < MaxTicks
  /\ now' = now + d
  /\ ticks' = ticks + 1
  /\ UNCHANGED <<impl, disk, dataDatabaseFishJson,
                 bettaProgressJson, databaseFishJson, fishProgressJson,
                 progressStore, loadedFromDisk, store, resp, io, lastFeed,
                 reqs, lu>>

(***************************************************************************)
(* Initial states: a fresh deployment at the start of the clock, or an aged *)
(* one whose storage holds the record of a fish fed in the past.           *)
(***************************************************************************)
\* the threshold curve of the deployment, whatever the cap
CurveOf(i, level) ==
  IF i = "mem" THEN expNeeded_p015(level) ELSE expNeeded(level)

\* records a fish reaches by being fed under seed.rarity
Seeds(i) ==
  {[level |-> 14, exp |-> CurveOf(i, 14) - GainOf(i), rarity |-> "COMMON"],
   [level |-> 15, exp |-> GainOf(i), rarity |-> "UNCOMMON"],
   [level |-> 16, exp |-> GainOf(i), rarity |-> "UNCOMMON"]}

SeedToken == "1"

NoGain == [level |-> 0, exp |-> 0, expNeededNext |-> 0, isMax |-> FALSE]

NoLu == [rarity |-> "", level |-> 0, exp |-> 0, gain |-> 0, done |-> FALSE,
         feed |-> NoGain, p008 |-> NoGain, p009 |-> NoGain, p009mem |-> NoGain]

InitFresh(i) ==
  /\ impl = i
  /\ now = 1
  /\ bettaProgressJson = Empty
  /\ databaseFishJson = Empty
  /\ fishProgressJson = {}
  /\ store = Empty
  /\ lastFeed = [t \in Tokens |-> NeverFed]

InitAged(i, seed) ==
  LET at == AgedNow - CooldownOf(i)
      rec == [tokenId |-> SeedToken, rarity |-> seed.rarity, level |-> seed.level,
              exp |-> seed.exp, lastFeedAt |-> at]
  IN  /\ impl = i
      /\ now = AgedNow
      /\ bettaProgressJson =
           IF i = "sync"
           THEN Put(Empty, SeedToken, [level |-> seed.level, exp |-> seed.exp,
                                       lastFedAt |-> at])
           ELSE Empty
      /\ databaseFishJson =
           IF i = "async"
           THEN Put(Empty, SeedToken, [level |-> seed.level, exp |-> seed.exp,
                                       lastFeedAt |-> at, rarity |-> seed.rarity])
           ELSE Empty
      /\ fishProgressJson = IF i = "file" THEN {rec} ELSE {}
      /\ store = IF i = "mem" THEN Put(Empty, SeedToken, rec) ELSE Empty
      /\ lastFeed = [t \in Tokens |-> IF t = SeedToken
                                      THEN [at |-> at, rarity |-> seed.rarity]
                                      ELSE NeverFed]

Init ==
  /\ \E i \in Impls : \/ InitFresh(i)
                      \/ \E seed \in Seeds(i) : InitAged(i, seed)
  /\ disk = "ok"
  /\ dataDatabaseFishJson = NoFile
  /\ ticks = 0
  /\ progressStore = Empty
  /\ loadedFromDisk = FALSE
  /\ resp = NoResp
  /\ io = NoIo
  /\ reqs = [s \in Slots |-> Idle]
  /\ lu = NoLu

\* the request bodies the model sends: every way a field can be missing,
\* the seeded fish under both rarities, a second fish under one
FeedInputs ==
  {[tokenId |-> "", rarity |-> "COMMON", walletAddress |-> "0xabc"],
   [tokenId |-> "1", rarity |-> "", walletAddress |-> "0xabc"],
   [tokenId |-> "1", rarity |-> "COMMON", walletAddress |-> ""],
   [tokenId |-> "1", rarity |-> "COMMON", walletAddress |-> "0xabc"],
   [tokenId |-> "1", rarity |-> "UNCOMMON", walletAddress |-> "0xabc"],
   [tokenId |-> "2", rarity |-> "COMMON", walletAddress |-> "0xabc"]}

ProgressInputs ==
  {[tokens |-> {}, rarity |-> "COMMON"],
   [tokens |-> {"1"}, rarity |-> ""],
   [tokens |-> {"1"}, rarity |-> "UNCOMMON"],
   [tokens |-> {"1", "2"}, rarity |-> "COMMON"]}

Next ==
  \/ \E d \in {1, CooldownOf(impl) - 1} : Tick(d)
  \/ \E b \in FeedInputs : POST_feed(b.tokenId, b.rarity, b.walletAddress)
  \/ \E b \in FeedInputs : P008_Begin(1, b.tokenId, b.rarity, b.walletAddress)
  \/ P008_Loaded(1)
  \/ P008_Saved(1)
  \/ \E b \in FeedInputs : POST_p009(b.tokenId, b.rarity)
  \/ \E b \in ProgressInputs : POST_p006(b.tokens, b.rarity)
  \/ \E b \in {x \in ProgressInputs : x.rarity \in Rarity} :
       POST_progress(b.tokens, b.rarity)
  \/ \E b \in ProgressInputs : POST_p004(b.tokens, b.rarity)

Spec == Init /\ [][Next]_vars

(***************************************************************************)
(* The level-up computations on their own: one run applies each route's    *)
(* computation to the same record and gain.                                *)
(***************************************************************************)
LuRarities == {"COMMON", "LEGENDARY"}

LuLevels == {1, 2, 13, 14}

LuExps == {0, 10, 90}

LuGains == {0, 10, 20, 99, 100, 149, 150, 239, 240, 299, 300, 419, 420, 1000}

\* the answer fields part_009 derives from the saved record, lines 124-136
Result_p009(i, rarity, g) ==
  LET maxLevel == maxLevelOf(i, rarity)
  IN  [level |-> g.level, exp |-> g.exp,
       expNeededNext |-> IF levelAtCap(g.level, maxLevel) THEN 0
                         ELSE expNeededOf(i, g.level),
       isMax |-> levelAtCap(g.level, maxLevel)]

InitLU ==
  /\ impl = "sync"
  /\ disk = "ok"
  /\ dataDatabaseFishJson = NoFile
  /\ now = 1
  /\ ticks = 0
  /\ bettaProgressJson = Empty
  /\ databaseFishJson = Empty
  /\ fishProgressJson = {}
  /\ progressStore = Empty
  /\ loadedFromDisk = FALSE
  /\ store = Empty
  /\ resp = NoResp
  /\ io = NoIo
  /\ lastFeed = [t \in Tokens |-> NeverFed]
  /\ reqs = [s \in Slots |-> Idle]
  /\ \E r \in LuRarities, l \in LuLevels, e \in LuExps, g \in LuGains :
       lu = [NoLu EXCEPT !.rarity = r, !.level = l, !.exp = e, !.gain = g]

LevelUp ==
  /\ ~lu.done
  /\ lu' = [lu EXCEPT
       !.done = TRUE,
       !.feed = GainExp(lu.rarity, lu.level, lu.exp, lu.gain),
       !.p008 = applyExpGain(lu.rarity, lu.level, lu.exp, lu.gain),
       !.p009 = Result_p009("file", lu.rarity,
                  GainExp_p009("file", maxLevelOf("file", lu.rarity),
                               lu.level, lu.exp, lu.gain)),
       !.p009mem = Result_p009("mem", lu.rarity,
                     GainExp_p009("mem", maxLevelOf("mem", lu.rarity),
                                  lu.level, lu.exp, lu.gain))]
  /\ UNCHANGED <<impl, disk, dataDatabaseFishJson,
                 now, ticks, bettaProgressJson, databaseFishJson,
                 fishProgressJson, progressStore, loadedFromDisk, store,
                 resp, io, lastFeed, reqs>>

NextLU == LevelUp

SpecLU == InitLU /\ [][NextLU]_vars

(***************************************************************************)
(* The store on its own: its exported operations called directly.          *)
(***************************************************************************)
StoreRarities == {"COMMON", "UNCOMMON"}

\* records a caller saves
SaveInputs ==
  {[tokenId |-> t, rarity |-> r, level |-> 2, exp |-> 10, lastFeedAt |-> AgedNow] :
     t \in Tokens, r \in StoreRarities}

ManyInputs ==
  {{[tokenId |-> "1", rarity |-> "COMMON"]},
   {[tokenId |-> t, rarity |-> r] : t \in Tokens, r \in StoreRarities}}

InitStore ==
  /\ \E i \in {"file", "mem"} : \/ InitFresh(i)
                                \/ \E seed \in Seeds(i) : InitAged(i, seed)
  /\ disk = "ok"
  /\ dataDatabaseFishJson = NoFile
  /\ ticks = 0
  /\ progressStore = Empty
  /\ loadedFromDisk = FALSE
  /\ resp = NoResp
  /\ io = NoIo
  /\ reqs = [s \in Slots |-> Idle]
  /\ lu = NoLu

GetOrCreate(tok, r) ==
  /\ UNCHANGED <<impl, disk, dataDatabaseFishJson,
                 now, ticks, bettaProgressJson, databaseFishJson, resp,
                 lastFeed, reqs, lu>>
  /\ IF impl = "file"
     THEN LET g == getOrCreateProgress(progressStore, loadedFromDisk,
                                       fishProgressJson, tok, r)
          IN  /\ progressStore' = g.map
              /\ loadedFromDisk' = TRUE
              /\ fishProgressJson' = g.file
              /\ io' = [NoIo EXCEPT !.loads = 1, !.writes = g.writes,
                                    !.created = g.created, !.got = g.rec]
              /\ UNCHANGED store
     ELSE LET g == getOrCreateProgress_p015(store, tok, r)
          IN  /\ store' = g.store
              /\ io' = [NoIo EXCEPT !.loads = 1, !.created = g.created, !.got = g.rec]
              /\ UNCHANGED <<progressStore, loadedFromDisk, fishProgressJson>>

SaveProgress(p) ==
  /\ UNCHANGED <<impl, disk, dataDatabaseFishJson,
                 now, ticks, bettaProgressJson, databaseFishJson, resp,
                 lastFeed, reqs, lu>>
  /\ IF impl = "file"
     THEN LET s == saveProgress(progressStore, loadedFromDisk, fishProgressJson, p)
          IN  /\ progressStore' = s.map
              /\ loadedFromDisk' = TRUE
              /\ fishProgressJson' = s.file
              /\ io' = [NoIo EXCEPT !.saves = 1, !.writes = s.writes]
              /\ UNCHANGED store
     ELSE /\ store' = saveProgress_p015(store, p)
          /\ io' = [NoIo EXCEPT !.saves = 1]
          /\ UNCHANGED <<progressStore, loadedFromDisk, fishProgressJson>>

GetMany(items) ==
  /\ impl = "file"
  /\ UNCHANGED <<impl, disk, dataDatabaseFishJson,
                 now, ticks, bettaProgressJson, databaseFishJson,
                 fishProgressJson, store, resp, lastFeed, reqs, lu>>
  /\ progressStore' = ensureLoaded(progressStore, loadedFromDisk, fishProgressJson)
  /\ loadedFromDisk' = TRUE
  /\ io' = [NoIo EXCEPT !.loads = 1,
                        !.rows = getManyProgress(progressStore, loadedFromDisk,
                                                 fishProgressJson, items)]

NextStore ==
  \/ \E tok \in Tokens, r \in StoreRarities : GetOrCreate(tok, r)
  \/ \E p \in SaveInputs : SaveProgress(p)
  \/ \E items \in ManyInputs : GetMany(items)

SpecStore == InitStore /\ [][NextStore]_vars

(***************************************************************************)
(* Feeds under a rarity tag the level table does not hold.                 *)
(***************************************************************************)
RarityInputs ==
  {[tokenId |-> "", rarity |-> "COMMON", walletAddress |-> "0xabc"],
   [tokenId |-> "1", rarity |-> "", walletAddress |-> "0xabc"],
   [tokenId |-> "1", rarity |-> "MYTHIC", walletAddress |-> "0xabc"],
   [tokenId |-> "1", rarity |-> "COMMON", walletAddress |-> "0xabc"],
   [tokenId |-> "2", rarity |-> "MYTHIC", walletAddress |-> "0xabc"]}

InitRarity == Init /\ impl \in {"sync", "file", "mem"}

NextRarity ==
  \/ \E d \in {1, CooldownOf(impl) - 1} : Tick(d)
  \/ \E b \in RarityInputs : POST_feed(b.tokenId, b.rarity, b.walletAddress)
  \/ \E b \in RarityInputs : POST_p009(b.tokenId, b.rarity)

SpecRarity == InitRarity /\ [][NextRarity]_vars

(***************************************************************************)
(* The routes while the file system fails and recovers.                    *)
(***************************************************************************)
DiskChange(d) ==
  /\ disk # d
  /\ disk' = d
  /\ UNCHANGED <<impl, dataDatabaseFishJson, now, ticks, bettaProgressJson,
                 databaseFishJson, fishProgressJson, progressStore,
                 loadedFromDisk, store, resp, io, lastFeed, reqs, lu>>

FaultFeeds ==
  {[tokenId |-> "1", rarity |-> "COMMON", walletAddress |-> "0xabc"],
   [tokenId |-> "2", rarity |-> "COMMON", walletAddress |-> "0xabc"]}

FaultQueries == {[tokens |-> {"1", "2"}, rarity |-> "COMMON"]}

NextFault ==
  \/ \E d \in {1, CooldownOf(impl) - 1} : Tick(d)
  \/ \E d \in DiskStates : DiskChange(d)
  \/ \E b \in FaultFeeds : POST_feed(b.tokenId, b.rarity, b.walletAddress)
  \/ \E b \in FaultFeeds : P008_Begin(1, b.tokenId, b.rarity, b.walletAddress)
  \/ P008_Loaded(1)
  \/ P008_Saved(1)
  \/ \E b \in FaultFeeds : POST_p009(b.tokenId, b.rarity)
  \/ \E b \in FaultQueries : POST_p006(b.tokens, b.rarity)
  \/ \E b \in FaultQueries : POST_progress(b.tokens, b.rarity)
  \/ \E b \in FaultQueries : POST_p004(b.tokens, b.rarity)
  \/ \E b \in FaultQueries : POST_p005(b.tokens, b.rarity)

SpecFault == Init /\ [][NextFault]_vars

(***************************************************************************)
(* Overlapping requests of unnamed/part_008 and api/progress/route.ts, with *)
(* the write of the document taking time                                   *)
(***************************************************************************)
InitWrite == Init /\ impl = "async"

NextWrite ==
  \/ Tick(CooldownOf(impl) - 1)
  \/ \E s \in Slots, b \in FaultFeeds :
       P008_Begin(s, b.tokenId, b.rarity, b.walletAddress)
  \/ \E s \in Slots : P008_Loaded(s)
  \/ \E s \in Slots : P008_WriteBegin(s)
  \/ \E s \in Slots : P008_Saved(s)
  \/ \E b \in FaultQueries : POST_progress(b.tokens, b.rarity)

SpecWrite == InitWrite /\ [][NextWrite]_vars

(* A run of feeds of one fresh COMMON fish through feed/route.ts: the       *)
(* caller feeds, and after an accepted feed lets the clock pass the window. *)
(***************************************************************************)
MaxFeeds == 6

RunToken == "1"

RunWaits == {FEED_COOLDOWN_MS, FEED_COOLDOWN_MS + 1, 2 * FEED_COOLDOWN_MS}

InitRun == Init /\ impl = "sync" /\ now = 1

Advance(d) ==
  /\ ticks < MaxFeeds
  /\ lastFeed[RunToken].at = now
  /\ now' = now + d
  /\ ticks' = ticks + 1
  /\ UNCHANGED <<impl, disk, dataDatabaseFishJson,
                 bettaProgressJson, databaseFishJson, fishProgressJson,
                 progressStore, loadedFromDisk, store, resp, io, lastFeed,
                 reqs, lu>>

NextRun ==
  \/ \E d \in RunWaits : Advance(d)
  \/ POST_feed(RunToken, "COMMON", "0xabc")

SpecRun == InitRun /\ [][NextRun]_vars

(* src/app as it stands: api/feed/route.ts feeds, api/progress/route.ts    *)
(* answers the progress queries.                                           *)
(***************************************************************************)
InitApp ==
  /\ impl = "app"
  /\ \/ /\ now = 1
        /\ bettaProgressJson = Empty
        /\ lastFeed = [t \in Tokens |-> NeverFed]
     \/ \E seed \in Seeds("sync") :
          /\ now = AgedNow
          /\ bettaProgressJson =
               Put(Empty, SeedToken,
                   [level |-> seed.level, exp |-> seed.exp,
                    lastFedAt |-> AgedNow - FEED_COOLDOWN_MS])
          /\ lastFeed = [t \in Tokens |->
                           IF t = SeedToken
                           THEN [at |-> AgedNow - FEED_COOLDOWN_MS,
                                 rarity |-> seed.rarity]
                           ELSE NeverFed]
  /\ databaseFishJson = Empty
  /\ fishProgressJson = {}
  /\ store = Empty
  /\ disk = "ok"
  /\ dataDatabaseFishJson = NoFile
  /\ ticks = 0
  /\ progressStore = Empty
  /\ loadedFromDisk = FALSE
  /\ resp = NoResp
  /\ io = NoIo
  /\ reqs = [s \in Slots |-> Idle]
  /\ lu = NoLu

NextApp ==
  \/ \E d \in {1, FEED_COOLDOWN_MS - 1} : Tick(d)
  \/ \E b \in FeedInputs : POST_feed(b.tokenId, b.rarity, b.walletAddress)
  \/ \E b \in {x \in ProgressInputs : x.rarity \in Rarity} :
       POST_progress(b.tokens, b.rarity)

SpecApp == InitApp /\ [][NextApp]_vars

(***************************************************************************)
(* Properties                                                              *)
(***************************************************************************)
\* the well-formed feed requests
ValidFeeds ==
  {b \in FeedInputs : b.tokenId # "" /\ b.rarity # "" /\ b.walletAddress # ""}

\* one run of a feed handler that runs without yielding
FeedOf(tok, r) == POST_feed(tok, r, "0xabc") \/ POST_p009(tok, r)

\* the key a request's record is stored under
KeyOf(i, tok, r) == IF i = "file" THEN makeKey(tok, r) ELSE tok

\* C1: after a feed of a fish is accepted at t1, a feed of the same stored
\* fish at t2 with t1 < t2 < t1 + cooldown is answered ON_COOLDOWN with
\* remainingMs = cooldown - (t2 - t1), and a feed at t2 >= t1 + cooldown is
\* never answered ON_COOLDOWN (feed/route.ts and part_009 over either store;
\* the same fish is the same store key).
C1_CooldownWindow ==
  [][\A b \in ValidFeeds :
       LET t1 == lastFeed[b.tokenId].at
           cd == CooldownOf(impl)
       IN  (FeedOf(b.tokenId, b.rarity) /\ t1 > 0 /\ t1 < now) =>
             /\ (/\ now < t1 + cd
                 /\ KeyOf(impl, b.tokenId, b.rarity)
                      = KeyOf(impl, b.tokenId, lastFeed[b.tokenId].rarity))
                => (resp'.error = "ON_COOLDOWN" /\ resp'.remainingMs = cd - (now - t1))
             /\ (now >= t1 + cd) => resp'.error # "ON_COOLDOWN"]_vars

\* a feed one millisecond after the accepted one is turned away for the rest
\* of the window
C1_Witness ==
  /\ impl \in {"sync", "file", "mem"}
  /\ resp.op = "feed" /\ resp.error = "ON_COOLDOWN"
  /\ resp.at = lastFeed[resp.tokenId].at + 1
  /\ resp.remainingMs = CooldownOf(impl) - 1

\* the records the deployment holds, by store key
Records ==
  CASE impl = "sync" -> bettaProgressJson
    [] impl = "async" -> databaseFishJson
    [] impl = "file" -> ensureLoaded(progressStore, loadedFromDisk, fishProgressJson)
    [] OTHER -> store

\* the durable documents
DurableFiles == <<bettaProgressJson, databaseFishJson, fishProgressJson>>

LastFeedAtOf(rec) == IF impl = "sync" THEN rec.lastFedAt ELSE rec.lastFeedAt

\* feed/route.ts stores no rarity with a record
RarityOf(rec) == IF impl = "sync" THEN "" ELSE rec.rarity

\* a step in which a feed handler answers ON_COOLDOWN
RejectedFeed ==
  /\ resp'.op = "feed" /\ resp'.error = "ON_COOLDOWN"
  /\ \/ \E b \in ValidFeeds : FeedOf(b.tokenId, b.rarity)
     \/ P008_Loaded(1)

\* a step in which the feed b is accepted and its record written
AcceptedFeed(b) ==
  /\ resp'.op = "feed" /\ resp'.ok
  /\ \/ FeedOf(b.tokenId, b.rarity)
     \/ (P008_Saved(1) /\ reqs[1].tok = b.tokenId /\ reqs[1].r = b.rarity)

\* C2 as claimed: a feed answered ON_COOLDOWN leaves every record (rarity
\* included) and the durable file as they were.
C2_RejectedFeedTouchesNothing ==
  [][RejectedFeed => (Records' = Records /\ DurableFiles' = DurableFiles)]_vars

\* C2 amended: a feed answered ON_COOLDOWN leaves the durable file, the set
\* of records and every record's level, exp and lastFeedAt as they were; a
\* record's rarity is as it was too, except that the in-memory store has
\* already given the fed fish's record the rarity of the request.
C2_RejectedFeedKeepsProgress ==
  [][RejectedFeed =>
       /\ DurableFiles' = DurableFiles
       /\ DOMAIN Records' = DOMAIN Records
       /\ \A k \in DOMAIN Records :
            /\ Records'[k].level = Records[k].level
            /\ Records'[k].exp = Records[k].exp
            /\ LastFeedAtOf(Records'[k]) = LastFeedAtOf(Records[k])
            /\ \/ RarityOf(Records'[k]) = RarityOf(Records[k])
               \/ (impl = "mem" /\ k = resp'.tokenId
                   /\ Records'[k].rarity = resp'.rarity)]_vars

\* the in-memory store after a feed that was turned away and yet changed the
\* rarity of the record
C2_Witness ==
  /\ impl = "mem"
  /\ resp.op = "feed" /\ resp.error = "ON_COOLDOWN"
  /\ resp.tokenId \in DOMAIN store
  /\ store[resp.tokenId].rarity = resp.rarity
  /\ lastFeed[resp.tokenId].rarity # resp.rarity
  /\ store[resp.tokenId].lastFeedAt = lastFeed[resp.tokenId].at

\* the rarity a record counts under: the stored one, or for feed/route.ts the
\* one of the last accepted feed
CapRarity(k) == IF impl = "sync" THEN lastFeed[k].rarity ELSE Records[k].rarity

\* C3 as claimed: every stored record's level is within [1, maxLevel(rarity)]
\* of the rarity it is stored or fed with.
C3_LevelWithinCap ==
  \A k \in DOMAIN Records :
    /\ Records[k].level >= 1
    /\ Records[k].level <= MAX_LEVEL_BY_RARITY[CapRarity(k)]

\* C4 as claimed: the record stored by a completed feed has exp within
\* [0, expNeeded(level)) below maxLevel(rarity) and exp = 0 at maxLevel(rarity).
C4_ExpWithinThreshold ==
  (resp.op = "feed" /\ resp.ok /\ impl \in {"sync", "file", "mem"}) =>
    LET rec == Records[KeyOf(impl, resp.tokenId, resp.rarity)]
        maxLevel == MAX_LEVEL_BY_RARITY[resp.rarity]
    IN  /\ rec.level < maxLevel => (0 <= rec.exp /\ rec.exp < CurveOf(impl, rec.level))
        /\ rec.level = maxLevel => rec.exp = 0

\* C5 as claimed: an accepted feed of a fish whose level >= maxLevel(rarity)
\* changes only lastFeedAt, to now, and answers isMax with expNeededNext = 0
\* (feed/route.ts and part_008).
C5_MaxLevelFeedOnlyRefreshes ==
  [][\A b \in ValidFeeds :
       (/\ impl \in {"sync", "async"}
        /\ AcceptedFeed(b)
        /\ b.tokenId \in DOMAIN Records
        /\ Records[b.tokenId].level >= MAX_LEVEL_BY_RARITY[b.rarity]) =>
         /\ Records'[b.tokenId].level = Records[b.tokenId].level
         /\ Records'[b.tokenId].exp = Records[b.tokenId].exp
         /\ LastFeedAtOf(Records'[b.tokenId]) = resp'.at
         /\ resp'.isMax /\ resp'.expNeededNext = 0]_vars

\* the experience a record stands for: the thresholds passed plus exp
RECURSIVE TotalExp(_, _, _)
TotalExp(i, level, exp) ==
  IF level <= 1 THEN exp ELSE CurveOf(i, level - 1) + TotalExp(i, level - 1, exp)

\* the record a request finds, the implicit default when there is none
Found(b) ==
  LET k == KeyOf(impl, b.tokenId, b.rarity)
  IN  IF k \in DOMAIN Records THEN [level |-> Records[k].level, exp |-> Records[k].exp]
      ELSE [level |-> 1, exp |-> 0]

\* C6: an accepted feed of a fish below maxLevel(rarity) adds exactly the
\* feed's gain to the total experience of its record.
C6_ExpConserved ==
  [][\A b \in ValidFeeds :
       (AcceptedFeed(b) /\ Found(b).level < MAX_LEVEL_BY_RARITY[b.rarity]) =>
         LET after == Records'[KeyOf(impl, b.tokenId, b.rarity)]
         IN  TotalExp(impl, after.level, after.exp)
               = TotalExp(impl, Found(b).level, Found(b).exp) + GainOf(impl)]_vars

\* a feed that took a fish from level 14 to 15 below the cap of its rarity
C6_Witness ==
  /\ resp.op = "feed" /\ resp.ok
  /\ resp.rarity = "UNCOMMON" /\ resp.level = 15 /\ resp.exp = 0 /\ ~resp.isMax

\* C8 as claimed: the first feed of a fish (no record, or lastFeedAt = 0) is
\* never answered ON_COOLDOWN, whatever the clock shows.
C8_FirstFeedNeverOnCooldown ==
  [][\A b \in ValidFeeds :
       (/\ \/ FeedOf(b.tokenId, b.rarity)
           \/ (P008_Loaded(1) /\ reqs[1].tok = b.tokenId /\ reqs[1].r = b.rarity)
        /\ LET k == KeyOf(impl, b.tokenId, b.rarity)
           IN  k \notin DOMAIN Records \/ LastFeedAtOf(Records[k]) = 0)
       => resp'.error # "ON_COOLDOWN"]_vars

\* the records a step created or changed
Changed == {k \in DOMAIN Records' : k \notin DOMAIN Records \/ Records'[k] # Records[k]}

TwoThresholds(i, gain) ==
  /\ gain >= CurveOf(i, 1) + CurveOf(i, 2)
  /\ gain < CurveOf(i, 1) + CurveOf(i, 2) + CurveOf(i, 3)

\* what the loop "while exp >= expNeeded(level) and level < maxLevel" leaves:
\* nothing lost, and a residue below the next threshold unless the cap stopped it
LoopOutcome(i, maxLevel, g) ==
  /\ TotalExp(i, g.level, g.exp) = TotalExp(i, lu.level, lu.exp) + lu.gain
  /\ g.level >= lu.level /\ g.level <= maxLevel /\ g.exp >= 0
  /\ g.level < maxLevel => g.exp < CurveOf(i, g.level)

\* C7: the level-up step of feed/route.ts and of part_009 jumps as many
\* levels as the experience pays for: below the cap it subtracts each
\* threshold it passes, and from level 1, exp 0 a gain that crosses exactly
\* two thresholds gives level 3 and exp = gain - expNeeded(1) - expNeeded(2).
C7_MultiLevelJump ==
  lu.done =>
    /\ lu.feed.level < MAX_LEVEL_BY_RARITY[lu.rarity]
         => LoopOutcome("file", MAX_LEVEL_BY_RARITY[lu.rarity], lu.feed)
    /\ LoopOutcome("file", MAX_LEVEL_BY_RARITY[lu.rarity],
                   LevelUpLoop_p009("file", MAX_LEVEL_BY_RARITY[lu.rarity],
                                    lu.level, lu.exp + lu.gain))
    /\ LoopOutcome("mem", MAX_LEVEL_BY_RARITY[lu.rarity],
                   LevelUpLoop_p009("mem", MAX_LEVEL_BY_RARITY[lu.rarity],
                                    lu.level, lu.exp + lu.gain))
    /\ (lu.level = 1 /\ lu.exp = 0 /\ TwoThresholds("file", lu.gain)) =>
         /\ lu.feed.level = 3 /\ lu.feed.exp = lu.gain - 100 - 140
         /\ lu.p009.level = 3 /\ lu.p009.exp = lu.gain - 100 - 140
    /\ (lu.level = 1 /\ lu.exp = 0 /\ TwoThresholds("mem", lu.gain)) =>
         /\ lu.p009mem.level = 3 /\ lu.p009mem.exp = lu.gain - 50 - 100

\* a gain of 300 from level 1, exp 0: two levels and 60 left
C7_Witness ==
  /\ lu.done /\ lu.level = 1 /\ lu.exp = 0 /\ lu.gain = 300
  /\ lu.feed.level = 3 /\ lu.feed.exp = 60
  /\ lu.p009.level = 3 /\ lu.p009.exp = 60

\* C10: getOrCreateProgress(tokenId, rarity) returns the record stored under
\* the request's key when there is one and changes no record's progress;
\* when there is none it stores the default record (level 1, exp 0,
\* lastFeedAt 0, the rarity given), persists it and returns it.
C10_GetOrCreate ==
  [][\A tok \in Tokens, r \in StoreRarities :
       GetOrCreate(tok, r) =>
         LET k == KeyOf(impl, tok, r)
         IN  IF k \in DOMAIN Records
             THEN /\ io'.got = [Records[k] EXCEPT !.rarity = r]
                  /\ ~io'.created
                  /\ Records' = Put(Records, k, io'.got)
                  /\ fishProgressJson' = fishProgressJson
             ELSE /\ io'.got = DefaultProgress(tok, r)
                  /\ io'.created
                  /\ Records' = Put(Records, k, DefaultProgress(tok, r))
                  /\ impl = "file" =>
                       fishProgressJson' = {Records'[j] : j \in DOMAIN Records'}]_vars

\* a default record created and persisted beside a record of the file
C10_Witness ==
  /\ impl = "file"
  /\ io.created /\ io.got = DefaultProgress("2", "COMMON")
  /\ DefaultProgress("2", "COMMON") \in fishProgressJson
  /\ Cardinality(fishProgressJson) = 2

\* C11: a getOrCreateProgress(tokenId, rarity) that directly follows a
\* getOrCreateProgress of the same tokenId and rarity returns the same record
\* again, creates nothing, writes nothing and leaves every record and the
\* durable file as they were.
C11_GetOrCreateTwice ==
  [][\A tok \in Tokens, r \in StoreRarities :
       (/\ GetOrCreate(tok, r)
        /\ io.got # NoRec /\ io.got.tokenId = tok /\ io.got.rarity = r) =>
         /\ io'.got = io.got
         /\ ~io'.created /\ io'.writes = 0
         /\ Records' = Records
         /\ fishProgressJson' = fishProgressJson]_vars

\* the second call found the default record the first one had created
C11_Witness ==
  /\ io.got = DefaultProgress("2", "UNCOMMON") /\ ~io.created
  /\ KeyOf(impl, "2", "UNCOMMON") \in DOMAIN Records
  /\ Records[KeyOf(impl, "2", "UNCOMMON")] = io.got

\* C12: getManyProgress(items) returns exactly the records stored under the
\* keys of the items, nothing for an item without a record, and creates,
\* changes and writes nothing.
C12_GetManyReadsOnly ==
  [][\A items \in ManyInputs :
       GetMany(items) =>
         /\ io'.rows = {Records[k] : k \in {makeKey(i.tokenId, i.rarity) : i \in items}
                                           \cap DOMAIN Records}
         /\ Records' = Records
         /\ fishProgressJson' = fishProgressJson
         /\ io'.writes = 0 /\ ~io'.created]_vars

\* four items asked for, the one record there is returned
C12_Witness ==
  /\ impl = "file"
  /\ Cardinality(io.rows) = 1
  /\ \A p \in io.rows : p.tokenId = "1" /\ p.rarity = "UNCOMMON" /\ p.level = 15
  /\ Cardinality(DOMAIN Records) = 1

\* one run of a progress handler
ProgressOf(qs, r) == POST_p006(qs, r) \/ POST_progress(qs, r) \/ POST_p004(qs, r)

\* C13 as claimed: a progress query that names a token never fed reports
\* level 1, exp 0, expNeededNext = expNeeded(1), isMax = false for it, and
\* creates or changes no record and no durable file.
C13_UnfedReportedDefault ==
  [][\A x \in ProgressInputs : \A t \in x.tokens :
       (/\ x.rarity \in Rarity
        /\ ProgressOf(x.tokens, x.rarity)
        /\ lastFeed[t].at = 0
        /\ KeyOf(impl, t, x.rarity) \notin DOMAIN Records) =>
         /\ resp'.ok
         /\ t \in DOMAIN resp'.progress
         /\ resp'.progress[t] = [level |-> 1, exp |-> 0,
                                 expNeededNext |-> CurveOf(impl, 1), isMax |-> FALSE]
         /\ Records' = Records
         /\ DurableFiles' = DurableFiles]_vars

\* the keys of the records held for a token
RecordsOf(tok) == {k \in DOMAIN Records : Records[k].tokenId = tok}

\* C14 as claimed: getOrCreateProgress(tokenId, rarity) on a token whose
\* stored record has another rarity overwrites the rarity in place: there is
\* still exactly one record for the token, now of the rarity given, with the
\* level, exp and lastFeedAt it had.
C14_RarityOverwrittenInPlace ==
  [][\A tok \in Tokens, r \in StoreRarities :
       (/\ GetOrCreate(tok, r)
        /\ Cardinality(RecordsOf(tok)) = 1
        /\ \A k \in RecordsOf(tok) : Records[k].rarity # r) =>
         LET old == Records[CHOOSE k \in RecordsOf(tok) : TRUE]
         IN  /\ Cardinality(RecordsOf(tok)') = 1
             /\ \A j \in RecordsOf(tok)' :
                  Records'[j] = [old EXCEPT !.rarity = r]]_vars

\* C15 as claimed: a feed whose rarity is none of the six tags is answered
\* with a client error and changes no record and no durable file.
C15_UnknownRarityRejected ==
  [][\A b \in RarityInputs :
       (b.rarity \notin Rarity /\ FeedOf(b.tokenId, b.rarity)) =>
         /\ resp'.status = 400 /\ ~resp'.ok
         /\ Records' = Records
         /\ DurableFiles' = DurableFiles]_vars

\* C16 as claimed: a feed whose tokenId is missing or whose rarity is missing
\* or none of the six tags is answered with a client error before any store
\* access: nothing is loaded, created or written, and every record and
\* durable file is as it was.
C16_InvalidInputTouchesNothing ==
  [][\A b \in RarityInputs :
       ((b.tokenId = "" \/ b.rarity \notin Rarity) /\ FeedOf(b.tokenId, b.rarity)) =>
         /\ resp'.status = 400 /\ ~resp'.ok
         /\ io'.loads = 0 /\ io'.saves = 0 /\ io'.writes = 0 /\ ~io'.created
         /\ loadedFromDisk' = loadedFromDisk
         /\ Records' = Records
         /\ DurableFiles' = DurableFiles]_vars

\* C17 as claimed: no handler answers with an internal error because the
\* backing store cannot be read or written; loads degrade to an empty
\* result and saves return normally.
C17_NoInternalError == resp.status # 500

\* the records of the deployment's durable file, by store key (the
\* in-memory store has none)
Durable ==
  CASE impl = "sync" -> bettaProgressJson
    [] impl = "async" -> databaseFishJson
    [] impl = "file" ->
         [k \in {makeKey(p.tokenId, p.rarity) : p \in fishProgressJson} |->
            CHOOSE p \in fishProgressJson : makeKey(p.tokenId, p.rarity) = k]
    [] OTHER -> Empty

\* C18 as claimed: a feed answered with success has its new level, exp and
\* lastFeedAt in the durable file (deployments with a backing store).
C18_SuccessMeansPersisted ==
  [][\A b \in ValidFeeds :
       (AcceptedFeed(b) /\ impl # "mem") =>
         LET k == KeyOf(impl, b.tokenId, b.rarity)
         IN  /\ k \in DOMAIN Durable'
             /\ Durable'[k].level = resp'.level
             /\ Durable'[k].exp = resp'.exp
             /\ LastFeedAtOf(Durable'[k]) = resp'.at]_vars

\* C19 as claimed: no step deletes a persisted record or lowers its
\* progress: every key of the durable file stays, with a level no lower and,
\* at the same level, an exp no lower.
C19_RecordsNeverDeleted ==
  [][\A k \in DOMAIN Durable :
       /\ k \in DOMAIN Durable'
       /\ Durable'[k].level >= Durable[k].level
       /\ Durable'[k].level = Durable[k].level => Durable'[k].exp >= Durable[k].exp]_vars

\* the documents a save in progress replaces and puts in place
WholeDocuments ==
  {databaseFishJson} \cup {reqs[q].db : q \in {x \in Slots : reqs[x].pc = "writing"}}

\* C20 as claimed: a read of the document, by a feed or by a progress
\* query, that follows or overlaps a save sees the complete document before
\* the save or the complete document after it.
C20_ReadsSeeWholeDocument ==
  [][((\E s \in Slots : P008_Loaded(s))
        \/ (\E b \in FaultQueries : POST_progress(b.tokens, b.rarity))) =>
       loadDb_p008 \in WholeDocuments]_vars

\* C21: the answer to an accepted feed has isMax exactly when its level is
\* at or above maxLevel(rarity), expNeededNext = 0 when isMax and
\* expNeeded(level) otherwise, cooldownMs = the route's cooldown window, and
\* the level and exp of the record stored, and persisted, for the fish.
C21_FeedResult ==
  [][\A b \in ValidFeeds :
       AcceptedFeed(b) =>
         LET k == KeyOf(impl, b.tokenId, b.rarity)
         IN  /\ resp'.isMax <=> resp'.level >= MAX_LEVEL_BY_RARITY[b.rarity]
             /\ resp'.expNeededNext
                  = (IF resp'.isMax THEN 0 ELSE CurveOf(impl, resp'.level))
             /\ resp'.cooldownMs = CooldownOf(impl)
             /\ k \in DOMAIN Records'
             /\ Records'[k].level = resp'.level /\ Records'[k].exp = resp'.exp
             /\ impl # "mem" =>
                  /\ k \in DOMAIN Durable'
                  /\ Durable'[k].level = resp'.level
                  /\ Durable'[k].exp = resp'.exp]_vars

\* a feed as COMMON that took the fish from level 14 to the cap
C21_Witness ==
  /\ resp.op = "feed" /\ resp.ok /\ resp.rarity = "COMMON"
  /\ resp.isMax /\ resp.level = 15 /\ resp.exp = 0 /\ resp.expNeededNext = 0
  /\ lastFeed[resp.tokenId].at = resp.at
  /\ Records[KeyOf(impl, resp.tokenId, "COMMON")].level = 15

\* the feeds accepted so far in a run: one before each wait, and the one at
\* the present instant
RunFeeds == ticks + (IF lastFeed[RunToken].at = now THEN 1 ELSE 0)

\* the fish of the run, the implicit default before its first feed
RunFish ==
  IF RunToken \in DOMAIN bettaProgressJson THEN bettaProgressJson[RunToken]
  ELSE [level |-> 1, exp |-> 0, lastFedAt |-> 0]

\* C22: from a fresh COMMON fish, a feed at least FEED_COOLDOWN_MS after the
\* last accepted one succeeds and a feed at the millisecond of an accepted
\* one is answered ON_COOLDOWN; after n accepted feeds the fish holds 20*n
\* experience in the form the level-up rule gives (exp below the threshold
\* of its level), which after five feeds is level 2, exp 0.
C22_FeedRun ==
  [][POST_feed(RunToken, "COMMON", "0xabc") =>
       /\ (lastFeed[RunToken].at = 0
             \/ now >= lastFeed[RunToken].at + FEED_COOLDOWN_MS) => resp'.ok
       /\ (lastFeed[RunToken].at = now) => resp'.error = "ON_COOLDOWN"
       /\ TotalExp("sync", RunFish'.level, RunFish'.exp) = EXP_PER_FEED * RunFeeds'
       /\ RunFish'.exp >= 0 /\ RunFish'.exp < expNeeded(RunFish'.level)
       /\ RunFeeds' = 5 => (RunFish'.level = 2 /\ RunFish'.exp = 0)]_vars

\* the sixth feed, at the millisecond of the fifth, turned away from a fish
\* at level 2, exp 0
C22_Witness ==
  /\ ticks = 4 /\ RunFeeds = 5
  /\ resp.op = "feed" /\ resp.error = "ON_COOLDOWN"
  /\ resp.remainingMs = FEED_COOLDOWN_MS
  /\ RunFish.level = 2 /\ RunFish.exp = 0 /\ RunFish.lastFedAt = now

\* C23: in feed/route.ts, whose handler runs from loadDb to saveDb without
\* yielding, a feed of a tokenId is accepted only when no feed of that
\* tokenId, under whatever rarity, was accepted less than FEED_COOLDOWN_MS
\* before, however the requests of one process are ordered.
C23_SyncFeedsOncePerWindow ==
  [][\A b \in ValidFeeds :
       (/\ impl = "sync"
        /\ POST_feed(b.tokenId, b.rarity, b.walletAddress)
        /\ resp'.ok
        /\ lastFeed[b.tokenId].at > 0) =>
         now >= lastFeed[b.tokenId].at + FEED_COOLDOWN_MS]_vars

\* a second request for the fish, under another rarity, handled at the
\* millisecond of the accepted one and turned away
C23_Witness ==
  /\ impl = "sync"
  /\ resp.op = "feed" /\ resp.error = "ON_COOLDOWN"
  /\ resp.at = lastFeed[resp.tokenId].at
  /\ resp.rarity # lastFeed[resp.tokenId].rarity
  /\ bettaProgressJson[resp.tokenId].lastFedAt = now

\* C24 as claimed: in part_008, however two requests for a tokenId
\* interleave at their awaits, a feed is answered with success only when
\* the last feed of that tokenId answered with success took its time at
\* least FEED_COOLDOWN_MS earlier.
C24_AsyncFeedsOncePerWindow ==
  [][\A s \in Slots :
       (P008_Saved(s) /\ resp'.ok /\ lastFeed[reqs[s].tok].at > 0) =>
         reqs[s].out.at >= lastFeed[reqs[s].tok].at + FEED_COOLDOWN_MS]_vars

\* C25 as claimed: in part_008, once the requests in flight have completed,
\* database-fish.json holds, for every tokenId whose feed was answered with
\* success, the record that feed wrote: no request's write of the whole
\* document discards the update of a request for another tokenId.
C25_BothUpdatesKept ==
  (impl = "async" /\ \A s \in Slots : reqs[s].pc = "idle") =>
    \A t \in Tokens :
      lastFeed[t].at > 0 =>
        /\ t \in DOMAIN databaseFishJson
        /\ databaseFishJson[t].lastFeedAt = lastFeed[t].at

\* C26 as claimed: over the file-backed store a feed of a tokenId is
\* accepted only when no feed of that tokenId, under whatever rarity, was
\* accepted less than COOLDOWN_MS before.
C26_OncePerWindowWhateverRarity ==
  [][\A b \in ValidFeeds :
       (/\ impl = "file"
        /\ POST_p009(b.tokenId, b.rarity)
        /\ resp'.ok
        /\ lastFeed[b.tokenId].at > 0) =>
         now >= lastFeed[b.tokenId].at + COOLDOWN_MS]_vars

\* C27 as claimed: an accepted feed never lowers the stored level of the
\* fish, whatever rarity the request supplies.
C27_LevelNeverDecreases ==
  [][\A b \in ValidFeeds :
       LET k == KeyOf(impl, b.tokenId, b.rarity)
       IN  (AcceptedFeed(b) /\ k \in DOMAIN Records) =>
             Records'[k].level >= Records[k].level]_vars

\* C28 as claimed: a progress query that directly follows an accepted feed
\* and names the fed tokenId with the rarity of the feed reports the level,
\* exp, expNeededNext and isMax the feed returned (api/feed/route.ts and
\* api/progress/route.ts).
C28_ProgressAgreesWithFeed ==
  [][\A x \in ProgressInputs :
       (/\ x.rarity \in Rarity
        /\ POST_progress(x.tokens, x.rarity)
        /\ resp.op = "feed" /\ resp.ok
        /\ resp.tokenId \in x.tokens /\ resp.rarity = x.rarity) =>
         /\ resp'.ok
         /\ resp'.progress[resp.tokenId]
              = [level |-> resp.level, exp |-> resp.exp,
                 expNeededNext |-> resp.expNeededNext, isMax |-> resp.isMax]]_vars

\* C29: for a record with level in [1, maxLevel(rarity)) and exp in
\* [0, expNeeded(level)) and a gain >= 0, applyExpGain of part_008 returns
\* the level, exp, expNeededNext and isMax that the add-then-subtract loop
\* with the clamp at the cap of feed/route.ts returns.
C29_ApplyExpGainAgreesWithLoop ==
  (/\ lu.done
   /\ lu.level >= 1 /\ lu.level < MAX_LEVEL_BY_RARITY[lu.rarity]
   /\ lu.exp >= 0 /\ lu.exp < expNeededForLevel(lu.rarity, lu.level)
   /\ lu.gain >= 0) =>
    lu.p008 = lu.feed

\* a gain of 1000 at level 14, exp 90 of a COMMON fish: both computations
\* stop at the cap with exp 0
C29_Witness ==
  /\ lu.done /\ lu.rarity = "COMMON" /\ lu.level = 14 /\ lu.exp = 90 /\ lu.gain = 1000
  /\ lu.p008 = [level |-> 15, exp |-> 0, expNeededNext |-> 0, isMax |-> TRUE]
  /\ lu.feed = lu.p008

====
